---- MODULE Spec2Model ----
(***************************************************************************)
(* A model of the `happi audit` command (src/happi/audit.py): the Audit    *)
(* object, its pipeline state (_all_devices, _all_items), the validators   *)
(* and the staged loops of parse_database / check_extra_attributes.        *)
(*                                                                         *)
(* Python strings that the code splits (device_class) are sequences of     *)
(* one-character strings, so that rsplit is computed, not assumed.         *)
(* A record (database entry) is a function from the keys it carries to     *)
(* their values; item.get(k) is None exactly when k is not in its domain.  *)
(***************************************************************************)
EXTENDS Naturals, Sequences, FiniteSets, TLC

\* ------------------------------------------------------------------ bounds

\* Longest database (number of records) the model loads.
MaxItems == 2

\* Number of times Audit.run is called on the one process-wide Audit object.
MaxRuns == 2

\* Most get_device_class calls a caller of the validators makes on one object.
MaxCalls == 2

\* ------------------------------------------------------------ report codes

\* class ReportCode(Enum)
ReportCode == {"SUCCESS", "INVALID", "MISSING", "EXTRAS", "NO_CODE"}

\* What a call hands back: one ReportCode member, a tuple of members, the
\* _all_devices set itself, None (fell off the end), or an exception.
Code(c) == [kind |-> "code", val |-> <<c>>]
CodePair(c, d) == [kind |-> "tuple", val |-> <<c, d>>]
DeviceSet == [kind |-> "set", val |-> <<>>]
Pending == [kind |-> "pending", val |-> <<>>]
NoneValue == [kind |-> "none", val |-> <<>>]
Raised(e) == [kind |-> "raise", val |-> <<e>>]

\* -------------------------------------------------------- python strings

Dot == "."

\* '.' in s
HasDot(s) == \E i \in 1..Len(s) : s[i] = Dot

\* Index of the last / the first '.' of s (s has one).
LastDot(s) == CHOOSE i \in 1..Len(s) : s[i] = Dot /\ \A j \in (i+1)..Len(s) : s[j] # Dot
FirstDot(s) == CHOOSE i \in 1..Len(s) : s[i] = Dot /\ \A j \in 1..(i-1) : s[j] # Dot

\* s.rsplit('.', 1): one split at the last '.', or the string alone.
RSplit1(s) ==
    IF HasDot(s)
    THEN << SubSeq(s, 1, LastDot(s) - 1), SubSeq(s, LastDot(s) + 1, Len(s)) >>
    ELSE << s >>

\* s.rsplit('.'): split at every '.'.
RECURSIVE RSplit(_)
RSplit(s) ==
    IF HasDot(s)
    THEN Append(RSplit(SubSeq(s, 1, LastDot(s) - 1)), SubSeq(s, LastDot(s) + 1, Len(s)))
    ELSE << s >>

\* ---------------------------------------------------------------- records

\* item.get(key) is not None
Has(item, key) == key \in DOMAIN item

\* The empty string, in the representation the field uses.
EmptyStr(key) == IF key = "device_class" THEN << >> ELSE ""

\* Python truthiness of item.get(key) for a string value: None and '' are falsy.
Truthy(item, key) == Has(item, key) /\ item[key] # EmptyStr(key)

\* Field Descriptor (EntryInfo): key, optional flag, enforcement rule.
\* rule "enum": the value must be one of allowed; rule "none": no rule.
Info(k, opt, rule, allowed) == [key |-> k, optional |-> opt, rule |-> rule, allowed |-> allowed]

\* The container schemas the registries are drawn from.
OphydItemInfo ==
    << Info("name", FALSE, "enum", {"d1", "d2"}),
       Info("device_class", TRUE, "none", {}),
       Info("args", TRUE, "none", {}),
       Info("kwargs", TRUE, "none", {}),
       Info("prefix", FALSE, "enum", {"ok"}) >>

BareInfo == << >>

Schemas == ("OphydItem" :> [entry_info |-> OphydItemInfo]) @@ ("Bare" :> [entry_info |-> BareInfo])

\* Every registry the model audits against: any subset of the schemas.
Registries == { [n \in S |-> Schemas[n]] : S \in SUBSET (DOMAIN Schemas) }

\* An argument of a record: a literal or a template string.
Literal == [str |-> FALSE]
Template == [str |-> TRUE]

ClassAB == << "a", ".", "B" >>
ClassBC == << "b", ".", "C" >>
ClassABC == << "a", ".", "b", ".", "C" >>
ClassNoDot == << "a" >>
ClassDotC == << ".", "C" >>

\* The records a database is built from.
Shapes ==
    { [name |-> "d1", type |-> "OphydItem", device_class |-> ClassAB,
       args |-> << Literal >>, kwargs |-> << >>, prefix |-> "ok"],
      [name |-> "d2", device_class |-> ClassBC],
      [name |-> "d1", type |-> "Ghost", device_class |-> ClassABC, prefix |-> "ok"],
      [name |-> "d2", type |-> "", device_class |-> ClassNoDot],
      [name |-> "d1", type |-> "OphydItem", device_class |-> ClassDotC,
       args |-> << Template >>, prefix |-> "bad"],
      [name |-> "bad name", type |-> "OphydItem", kwargs |-> << Template >>, prefix |-> "ok"],
      [name |-> "d2", type |-> "Bare", device_class |-> << >>, extra_field |-> "x"],
      [name |-> "d1", type |-> "OphydItem", device_class |-> ClassBC, prefix |-> "ok",
       extra_field |-> "x", creation |-> "now"],
      [type |-> "OphydItem", prefix |-> "ok"],
      [name |-> "d2", type |-> "OphydItem", device_class |-> ClassNoDot, prefix |-> "ok"],
      [name |-> "d2", type |-> "OphydItem", device_class |-> ClassABC, prefix |-> "ok",
       last_edit |-> "now"] }

RECURSIVE SeqsUpTo(_, _)
SeqsUpTo(S, n) ==
    IF n = 0 THEN { << >> }
    ELSE LET shorter == SeqsUpTo(S, n - 1)
         IN  shorter \cup { Append(s, x) : s \in { t \in shorter : Len(t) = n - 1 }, x \in S }

Databases == SeqsUpTo(Shapes, MaxItems)

\* -------------------------------------------------------------- collaborators

\* registry[name] (happi.containers): the container of a registered name;
\* a name the mapping does not hold raises KeyError, as any mapping does.
registry_getitem(reg, item) ==
    IF Has(item, "type") /\ item["type"] \in DOMAIN reg
    THEN [raise |-> FALSE, container |-> << reg[item["type"]] >>]
    ELSE [raise |-> TRUE, container |-> << >>]

\* info.enforce_value(value) (EntryInfo): TRUE when it returns, FALSE when it
\* raises. None passes only for an optional descriptor.
enforce_value(info, value) ==
    IF ~value.has THEN info.optional
    ELSE IF info.rule = "enum" THEN value.v \in info.allowed
    ELSE TRUE

\* Outcomes of import_class(device_class) (happi.loader): the class, or ImportError.
ImportOutcomes == {"resolved", "ImportError"}

\* Outcomes of fill_template(arg, item, enforce_type=True) (happi.loader).
FillOutcomes == {"filled", "raise"}

\* Outcomes of `cls = import_class(item.device_class); cls(*args, **kwargs)`:
\* the object is built, import_class raises, or the constructor raises.
ConstructOutcomes == {"built", "ImportError", "Exception"}

\* Outcomes of the `pip search` subprocess: the package name matches the start
\* of its output, it does not, Popen/communicate raises, or the subprocess never
\* answers: communicate is called without a timeout and then never returns.
PipOutcomes == {"match", "nomatch", "raise", "hang"}

\* Whether the running interpreter could import the module (the empty name
\* never): a fact of the environment that nothing in the lookup asks for.
ProbeOutcomes == {"importable", "unimportable"}

\* ------------------------------------------------------------------ validators

\* validate_container testing `container is not None` where the code tests its
\* truth: an empty type string is then reported INVALID.
validate_container_tests_none(item, reg) ==
    IF Has(item, "type") /\ item["type"] \notin DOMAIN reg THEN Code("INVALID")
    ELSE IF ~Has(item, "type") THEN Code("MISSING")
    ELSE Code("SUCCESS")

\* Audit.validate_container
validate_container(item, reg) ==
    IF Truthy(item, "type") /\ item["type"] \notin DOMAIN reg THEN Code("INVALID")
    ELSE IF ~Truthy(item, "type") THEN Code("MISSING")
    ELSE Code("SUCCESS")

\* Audit.create_arg: a non-string passes through, a string goes to fill_template.
create_arg(item, arg, fill) ==
    IF ~arg.str THEN "arg"
    ELSE IF fill = "filled" THEN "arg" ELSE "raise"

\* item.args / item.kwargs of a loaded item (empty when the record has none).
ArgsOf(item) == IF Has(item, "args") THEN item["args"] ELSE << >>
KwargsOf(item) == IF Has(item, "kwargs") THEN item["kwargs"] ELSE << >>

\* Audit.validate_args: TRUE when the list is built, FALSE when create_arg raises.
validate_args(item, fill) ==
    \A i \in 1..Len(ArgsOf(item)) : create_arg(item, ArgsOf(item)[i], fill) # "raise"

\* Audit.validate_kwargs: TRUE when the dict is built, FALSE when create_arg raises.
validate_kwargs(item, fill) ==
    \A i \in 1..Len(KwargsOf(item)) : create_arg(item, KwargsOf(item)[i], fill) # "raise"

\* The construction attempt of parse_database without its `except`: what
\* import_class or the constructor raises leaves the loop.
try_construct_propagates(item, out) ==
    IF out = "built" THEN "built" ELSE "raise"

\* The construction attempt of parse_database, in its try/except Exception:
\* "built", or "logged" when import_class or the constructor raised.
try_construct(item, out) ==
    IF out = "built" THEN "built" ELSE "logged"

\* get_device_class recording `mod`, the part before the last '.', where the
\* code records the part before the first '.'.
get_device_class_records_mod(item, devs, its) ==
    IF ~Truthy(item, "device_class")
    THEN [ret |-> Code("MISSING"), all_devices |-> devs, all_items |-> its]
    ELSE IF Len(RSplit1(item["device_class"])) # 2
    THEN [ret |-> Code("INVALID"), all_devices |-> devs, all_items |-> its]
    ELSE [ret |-> DeviceSet,
          all_devices |-> devs \cup { RSplit1(item["device_class"])[1] },
          all_items |-> Append(its, item)]

\* get_device_class appending the record to _all_items before it splits the
\* class path: a path without '.' is then reported INVALID and kept.
get_device_class_appends_first(item, devs, its) ==
    IF ~Truthy(item, "device_class")
    THEN [ret |-> Code("MISSING"), all_devices |-> devs, all_items |-> its]
    ELSE IF Len(RSplit1(item["device_class"])) # 2
    THEN [ret |-> Code("INVALID"), all_devices |-> devs, all_items |-> Append(its, item)]
    ELSE [ret |-> DeviceSet,
          all_devices |-> devs \cup { RSplit(item["device_class"])[1] },
          all_items |-> Append(its, item)]

\* Audit.get_device_class: the value returned and the pipeline state it leaves.
get_device_class(item, devs, its) ==
    IF ~Truthy(item, "device_class")
    THEN [ret |-> Code("MISSING"), all_devices |-> devs, all_items |-> its]
    ELSE IF Len(RSplit1(item["device_class"])) # 2
    THEN [ret |-> Code("INVALID"), all_devices |-> devs, all_items |-> its]
    ELSE [ret |-> DeviceSet,
          all_devices |-> devs \cup { RSplit(item["device_class"])[1] },
          all_items |-> Append(its, item)]

\* Audit.validate_import_class: the value returned, and what import_class did
\* ("no" when it was not called).
validate_import_class(item, devs, imp) ==
    IF ~Truthy(item, "device_class") THEN [ret |-> Code("MISSING"), imported |-> "no"]
    ELSE IF ~HasDot(item["device_class"]) THEN [ret |-> Code("INVALID"), imported |-> "no"]
    ELSE LET mod == RSplit(item["device_class"])[1]
         IN  IF mod \in devs
             THEN IF imp = "resolved"
                  THEN [ret |-> Code("SUCCESS"), imported |-> imp]
                  ELSE [ret |-> CodePair("INVALID", "MISSING"), imported |-> imp]
             ELSE IF mod # << >> /\ mod \notin devs
             THEN [ret |-> Code("INVALID"), imported |-> "no"]
             ELSE [ret |-> NoneValue, imported |-> "no"]

\* Audit.search_pip_package: "True", "False", or "None" after an exception;
\* "pending" when communicate never returns.
\* re.match(package, out) of an empty pattern matches every output.
search_pip_package(package, out) ==
    IF out = "hang" THEN "pending"
    ELSE IF out = "raise" THEN "None"
    ELSE IF out = "match" \/ package = << >> THEN "True"
    ELSE "False"

\* Audit.get_value: the record's value for info.key, None when it has none.
get_value(info, item) ==
    IF Has(item, info.key) THEN [has |-> TRUE, v |-> item[info.key]]
    ELSE [has |-> FALSE, v |-> ""]

\* Audit.validate_enforce
validate_enforce(item, reg) ==
    LET got == registry_getitem(reg, item)
    IN  IF got.raise THEN Raised("KeyError")
        ELSE IF got.container # << >>
        THEN LET entry_info == got.container[1].entry_info
             IN  IF entry_info = << >> THEN NoneValue
                 ELSE IF enforce_value(entry_info[1], get_value(entry_info[1], item))
                 THEN Code("SUCCESS")
                 ELSE Code("INVALID")
        ELSE Code("MISSING")

\* extr_list of validate_extra_attributes
extr_list == {"creation", "last_edit", "_id", "type"}

\* Smaller of two numbers: where zip() stops.
Min(a, b) == IF a < b THEN a ELSE b

\* Audit.validate_extra_attributes on an item with the given entry_info.
validate_extra_attributes(item, entry_info) ==
    LET n == Min(Cardinality(DOMAIN item), Len(entry_info))
        attr_list == { entry_info[i].key : i \in 1..n }
        diff == ((DOMAIN item) \ attr_list) \ extr_list
    IN  IF diff # {} THEN Code("EXTRAS") ELSE Code("SUCCESS")

\* item.entry_info of a loaded item: the descriptors of its container.
EntryInfoOf(item, reg) == reg[item["type"]].entry_info

\* ----------------------------------------------------------------------- state

VARIABLES
    items,        \* the records of the database (client.all_items, backend.all_devices)
    registry,     \* happi.containers.registry
    all_devices,  \* Audit._all_devices
    all_items,    \* Audit._all_items
    temp_set,     \* temp_set of check_device_in_pypi
    todo,         \* packages the loop of check_device_in_pypi has not visited yet
    pc,           \* where the command is
    idx,          \* position of the running loop in its list
    extras,       \* args.extras of the running command
    runs,         \* calls of Audit.run so far
    exit_code,    \* the status the command ended with ("none" while it runs)
    db_path,      \* what Audit.run had for the database path ("unset" before a run)
    op,           \* the last call made
    arg,          \* << the record it was made on >>, or << package, probe >>
    ret,          \* what it returned
    imported,     \* what import_class (and the constructor) did in it ("no": not called)
    count,        \* calls of each stage in the running command
    first_pass    \* pipeline state when module discovery first finished a database

vars == << items, registry, all_devices, all_items, temp_set, todo, pc, idx, extras,
           runs, exit_code, db_path, op, arg, ret, imported, count, first_pass >>

Stages == {"validate", "args", "enforce", "discover", "pypi", "import", "container", "extras"}

NoCalls == [s \in Stages |-> 0]

Bump(stage) == [count EXCEPT ![stage] = @ + 1]

\* Audit.__init__, and the module-level `audit = Audit()` of the command line.
Init ==
    /\ items \in Databases
    /\ registry \in Registries
    /\ all_devices = {}
    /\ all_items = << >>
    /\ temp_set = {}
    /\ todo = {}
    /\ pc = "idle"
    /\ idx = 0
    /\ extras = FALSE
    /\ runs = 0
    /\ exit_code = "none"
    /\ db_path = "unset"
    /\ op = "init"
    /\ arg = << >>
    /\ ret = Code("NO_CODE")
    /\ imported = "no"
    /\ count = NoCalls
    /\ first_pass = << >>

\* What --file names: nothing, a regular file, or something that is no file.
FileArgs == {"none", "regular", "nofile"}

\* What Client.find_config and the configuration give: no configuration file,
\* one without a DEFAULT path, one whose path is a regular file or is no file.
Configs == {"notfound", "nopath", "regular", "nofile"}

\* Audit.validate_file: os.path.isfile
validate_file(path) == path = "regular"

\* Every record of an extras run is a loaded item: it has its container's entry_info.
AllLoaded == \A i \in 1..Len(items) : Has(items[i], "type") /\ items[i]["type"] \in DOMAIN registry

Called(name, on, value, imp) ==
    /\ op' = name
    /\ arg' = on
    /\ ret' = value
    /\ imported' = imp

\* sys.exit(1)
Exit1 ==
    /\ pc' = "exit"
    /\ exit_code' = "1"
    /\ UNCHANGED << idx, extras >>

\* process_args calling parse_database whatever args.extras is.
process_args_always_parses(database_path, ex) ==
    IF validate_file(database_path)
    THEN /\ ex => AllLoaded
         /\ pc' = "validate"
         /\ idx' = 1
         /\ extras' = ex
         /\ exit_code' = "none"
    ELSE Exit1

\* Audit.process_args up to the call of check_extra_attributes / parse_database.
process_args(database_path, ex) ==
    IF validate_file(database_path)
    THEN /\ ex => AllLoaded
         /\ pc' = IF ex THEN "extras" ELSE "validate"
         /\ idx' = 1
         /\ extras' = ex
         /\ exit_code' = "none"
    ELSE Exit1

\* The command returns to the command line, which ends with status 0.
Return ==
    /\ pc' = "done"
    /\ exit_code' = "0"

\* Audit.run, called by the command line.
Run ==
    /\ pc \in {"idle", "done"}
    /\ runs < MaxRuns
    /\ runs' = runs + 1
    /\ \E file \in FileArgs, config \in Configs, ex \in BOOLEAN :
          /\ db_path' = IF file # "none" THEN file ELSE config
          /\ IF file # "none" THEN process_args(file, ex)
             ELSE IF config = "notfound" THEN Exit1
             ELSE IF config = "nopath"
             THEN /\ Return
                  /\ UNCHANGED << idx, extras >>
             ELSE process_args(config, ex)
    /\ count' = NoCalls
    /\ Called("run", << >>, NoneValue, "no")
    /\ UNCHANGED << items, registry, all_devices, all_items, temp_set, todo, first_pass >>

\* parse_database: client.validate() under VALIDATING ENTRIES, then the branch
\* on `if items`.
ClientValidate ==
    /\ pc = "validate"
    /\ pc' = IF items # << >> THEN "args" ELSE "enforce"
    /\ idx' = 1
    /\ count' = Bump("validate")
    /\ Called("client.validate", << >>, NoneValue, "no")
    /\ UNCHANGED << items, registry, all_devices, all_items, temp_set, todo, extras,
                    runs, db_path, exit_code, first_pass >>

\* An uncaught exception ends the command with a traceback.
Raise ==
    /\ pc' = "raised"
    /\ exit_code' = "1"

\* parse_database, VALIDATING ARGS & KWARGS: one turn of the loop. validate_args
\* and validate_kwargs run outside the try; import_class and the construction
\* run inside it, and what they raise is logged.
ValidateArgs ==
    /\ pc = "args"
    /\ idx <= Len(items)
    /\ \E fill \in FillOutcomes, out \in ConstructOutcomes :
          /\ \/ fill = "filled"
             \/ \E a \in 1..Len(ArgsOf(items[idx])) : ArgsOf(items[idx])[a].str
             \/ \E a \in 1..Len(KwargsOf(items[idx])) : KwargsOf(items[idx])[a].str
          /\ out = "built" =>
                (Truthy(items[idx], "device_class") /\ HasDot(items[idx]["device_class"]))
          /\ IF ~(validate_args(items[idx], fill) /\ validate_kwargs(items[idx], fill))
             THEN /\ Raise
                  /\ Called("validate_args", << items[idx] >>, Raised("Exception"), "no")
                  /\ UNCHANGED idx
             ELSE IF try_construct(items[idx], out) = "raise"
             THEN /\ Raise
                  /\ Called("validate_args", << items[idx] >>, Raised(out), out)
                  /\ UNCHANGED idx
             ELSE /\ pc' = IF idx = Len(items) THEN "enforce" ELSE "args"
                  /\ idx' = IF idx = Len(items) THEN 1 ELSE idx + 1
                  /\ Called("validate_args", << items[idx] >>, NoneValue, out)
                  /\ UNCHANGED exit_code
    /\ count' = Bump("args")
    /\ UNCHANGED << items, registry, all_devices, all_items, temp_set, todo, extras,
                    runs, db_path, first_pass >>

\* The start of check_device_in_pypi: temp_set is a copy of a non-empty set.
EnterPypi(devs) ==
    /\ pc' = "pypi"
    /\ temp_set' = devs
    /\ todo' = devs

\* parse_database, VALIDATING ENFORCE VALUES: validate_enforce(it) of one turn.
ValidateEnforce ==
    /\ pc = "enforce"
    /\ IF idx > Len(items)
       THEN /\ EnterPypi(all_devices)
            /\ first_pass' = first_pass
            /\ UNCHANGED << all_devices, all_items, idx, exit_code, op, arg, ret,
                            imported, count >>
       ELSE LET r == validate_enforce(items[idx], registry)
            IN  /\ IF r.kind = "raise"
                   THEN Raise
                   ELSE pc' = "discover" /\ UNCHANGED exit_code
                /\ Called("validate_enforce", << items[idx] >>, r, "no")
                /\ count' = Bump("enforce")
                /\ UNCHANGED << all_devices, all_items, temp_set, todo, idx, first_pass >>
    /\ UNCHANGED << items, registry, extras, runs, db_path >>

\* parse_database, VALIDATING ENFORCE VALUES: get_device_class(it) of one turn;
\* after the last turn check_device_in_pypi starts.
GetDeviceClass ==
    /\ pc = "discover"
    /\ LET r == get_device_class(items[idx], all_devices, all_items)
       IN  /\ all_devices' = r.all_devices
           /\ all_items' = r.all_items
           /\ Called("get_device_class", << items[idx] >>, r.ret, "no")
           /\ IF idx = Len(items)
              THEN /\ EnterPypi(r.all_devices)
                   /\ first_pass' = IF first_pass = << >>
                                    THEN << [all_devices |-> r.all_devices,
                                             all_items |-> r.all_items] >>
                                    ELSE first_pass
              ELSE /\ pc' = "enforce"
                   /\ UNCHANGED << temp_set, todo, first_pass >>
    /\ idx' = idx + 1
    /\ count' = Bump("discover")
    /\ UNCHANGED << items, registry, extras, runs, db_path, exit_code >>

\* check_device_in_pypi: one turn of the loop over _all_devices.
SearchPipPackage ==
    /\ pc = "pypi"
    /\ todo # {}
    /\ \E package \in todo, out \in PipOutcomes, probe \in ProbeOutcomes :
          LET is_package_found == search_pip_package(package, out)
          IN  /\ package = << >> => probe = "unimportable"
              /\ IF is_package_found = "pending"
                 THEN /\ pc' = "blocked"
                      /\ Called("search_pip_package", << package, probe >>, Pending, "no")
                      /\ UNCHANGED << temp_set, todo >>
                 ELSE /\ temp_set' = IF is_package_found = "True" THEN temp_set
                                     ELSE temp_set \ { package }
                      /\ todo' = todo \ { package }
                      /\ Called("search_pip_package", << package, probe >>,
                                [kind |-> "bool", val |-> << is_package_found >>], "no")
                      /\ UNCHANGED pc
    /\ count' = Bump("pypi")
    /\ UNCHANGED << items, registry, all_devices, all_items, idx, extras, runs, db_path,
                    exit_code, first_pass >>

\* check_device_in_pypi also dropping from _all_items the records of the modules
\* it did not find.
CheckDeviceInPypiPrunesItems ==
    /\ pc = "pypi"
    /\ todo = {}
    /\ all_devices' = IF all_devices # {} THEN temp_set ELSE all_devices
    /\ all_items' = SelectSeq(all_items,
                              LAMBDA it : RSplit(it["device_class"])[1] \in temp_set)
    /\ pc' = IF Len(all_items') > 0 THEN "import" ELSE "container"
    /\ idx' = 1
    /\ Called("check_device_in_pypi", << >>,
              IF all_devices # {} THEN DeviceSet ELSE NoneValue, "no")
    /\ UNCHANGED << items, registry, temp_set, todo, extras, runs, db_path, exit_code,
                    count, first_pass >>

\* check_device_in_pypi leaving its loop at any turn, the lookups of the
\* remaining modules not made.
CheckDeviceInPypiLeavesEarly ==
    /\ pc = "pypi"
    /\ all_devices' = IF all_devices # {} THEN temp_set ELSE all_devices
    /\ pc' = IF Len(all_items) > 0 THEN "import" ELSE "container"
    /\ idx' = 1
    /\ Called("check_device_in_pypi", << >>,
              IF all_devices # {} THEN DeviceSet ELSE NoneValue, "no")
    /\ UNCHANGED << items, registry, all_items, temp_set, todo, extras, runs, db_path,
                    exit_code, count, first_pass >>

\* check_device_in_pypi: after the loop, `self._all_devices = temp_set` (only
\* when the set was not empty), and parse_database goes on to the import pass.
CheckDeviceInPypi ==
    /\ pc = "pypi"
    /\ todo = {}
    /\ all_devices' = IF all_devices # {} THEN temp_set ELSE all_devices
    /\ pc' = IF Len(all_items) > 0 THEN "import" ELSE "container"
    /\ idx' = 1
    /\ Called("check_device_in_pypi", << >>,
              IF all_devices # {} THEN DeviceSet ELSE NoneValue, "no")
    /\ UNCHANGED << items, registry, all_items, temp_set, todo, extras, runs, db_path, exit_code,
                    count, first_pass >>

\* The import pass leaving its loop after the first record.
ValidateImportClassFirstOnly ==
    /\ pc = "import"
    /\ idx <= Len(all_items)
    /\ \E imp \in ImportOutcomes :
          LET r == validate_import_class(all_items[idx], all_devices, imp)
          IN  /\ (imp = "ImportError" => r.imported = imp)
              /\ Called("validate_import_class", << all_items[idx] >>, r.ret, r.imported)
    /\ pc' = "container"
    /\ idx' = 1
    /\ count' = Bump("import")
    /\ UNCHANGED << items, registry, all_devices, all_items, temp_set, todo, extras,
                    runs, db_path, exit_code, first_pass >>

\* parse_database, VALIDATING DEVICE CLASS: one turn of the loop over _all_items.
ValidateImportClass ==
    /\ pc = "import"
    /\ idx <= Len(all_items)
    /\ \E imp \in ImportOutcomes :
          LET r == validate_import_class(all_items[idx], all_devices, imp)
          IN  /\ (imp = "ImportError" => r.imported = imp)
              /\ Called("validate_import_class", << all_items[idx] >>, r.ret, r.imported)
    /\ pc' = IF idx = Len(all_items) THEN "container" ELSE "import"
    /\ idx' = IF idx = Len(all_items) THEN 1 ELSE idx + 1
    /\ count' = Bump("import")
    /\ UNCHANGED << items, registry, all_devices, all_items, temp_set, todo, extras,
                    runs, db_path, exit_code, first_pass >>

\* parse_database, VALIDATING CONTAINER: one turn of the last loop, or its end.
ValidateContainer ==
    /\ pc = "container"
    /\ IF idx > Len(items)
       THEN /\ Return
            /\ UNCHANGED << idx, op, arg, ret, imported, count >>
       ELSE /\ Called("validate_container", << items[idx] >>,
                      validate_container(items[idx], registry), "no")
            /\ idx' = idx + 1
            /\ count' = Bump("container")
            /\ UNCHANGED << pc, exit_code >>
    /\ UNCHANGED << items, registry, all_devices, all_items, temp_set, todo, extras,
                    runs, db_path, first_pass >>

\* check_extra_attributes: one turn of its loop, or its end.
ValidateExtraAttributes ==
    /\ pc = "extras"
    /\ IF idx > Len(items)
       THEN /\ Return
            /\ UNCHANGED << idx, op, arg, ret, imported, count >>
       ELSE /\ Called("validate_extra_attributes", << items[idx] >>,
                      validate_extra_attributes(items[idx], EntryInfoOf(items[idx], registry)),
                      "no")
            /\ idx' = idx + 1
            /\ count' = Bump("extras")
            /\ UNCHANGED << pc, exit_code >>
    /\ UNCHANGED << items, registry, all_devices, all_items, temp_set, todo, extras,
                    runs, db_path, first_pass >>

Next ==
    \/ Run
    \/ ClientValidate
    \/ ValidateArgs
    \/ ValidateEnforce
    \/ GetDeviceClass
    \/ SearchPipPackage
    \/ CheckDeviceInPypi
    \/ ValidateImportClass
    \/ ValidateContainer
    \/ ValidateExtraAttributes

Spec == Init /\ [][Next]_vars

\* ------------------------------------------------- the validators, called singly
\* Each validator is a public method of Audit: a caller (a test, another command)
\* may call it on any record, with the object in whatever state earlier calls
\* left it.

UnitInit ==
    /\ items = << >>
    /\ registry \in Registries
    /\ all_devices = {}
    /\ all_items = << >>
    /\ temp_set = {}
    /\ todo = {}
    /\ pc = "idle"
    /\ idx = 0
    /\ extras = FALSE
    /\ runs = 0
    /\ exit_code = "none"
    /\ db_path = "unset"
    /\ op = "init"
    /\ arg = << >>
    /\ ret = Code("NO_CODE")
    /\ imported = "no"
    /\ count = NoCalls
    /\ first_pass = << >>

CallFrame == UNCHANGED << items, registry, temp_set, todo, pc, idx, extras, runs,
                          exit_code, db_path, count, first_pass >>

CallValidateContainer ==
    /\ \E item \in Shapes :
          Called("validate_container", << item >>, validate_container(item, registry), "no")
    /\ UNCHANGED << all_devices, all_items >>
    /\ CallFrame

CallValidateEnforce ==
    /\ \E item \in Shapes :
          Called("validate_enforce", << item >>, validate_enforce(item, registry), "no")
    /\ UNCHANGED << all_devices, all_items >>
    /\ CallFrame

CallGetDeviceClass ==
    /\ Len(all_items) < MaxCalls
    /\ \E item \in Shapes :
          LET r == get_device_class(item, all_devices, all_items)
          IN  /\ all_devices' = r.all_devices
              /\ all_items' = r.all_items
              /\ Called("get_device_class", << item >>, r.ret, "no")
    /\ CallFrame

CallValidateImportClass ==
    /\ \E item \in Shapes, imp \in ImportOutcomes :
          LET r == validate_import_class(item, all_devices, imp)
          IN  /\ (imp = "ImportError" => r.imported = imp)
              /\ Called("validate_import_class", << item >>, r.ret, r.imported)
    /\ UNCHANGED << all_devices, all_items >>
    /\ CallFrame

CallValidateExtraAttributes ==
    /\ \E item \in Shapes :
          /\ Has(item, "type") /\ item["type"] \in DOMAIN registry
          /\ Called("validate_extra_attributes", << item >>,
                    validate_extra_attributes(item, EntryInfoOf(item, registry)), "no")
    /\ UNCHANGED << all_devices, all_items >>
    /\ CallFrame

UnitNext ==
    \/ CallValidateContainer
    \/ CallValidateEnforce
    \/ CallGetDeviceClass
    \/ CallValidateImportClass
    \/ CallValidateExtraAttributes

UnitSpec == UnitInit /\ [][UnitNext]_vars

\* ---------------------------------------------------------------------- claims

\* The record the last call was made on.
Subject == arg[1]

\* C1: a full audit run on a loaded database never ends by raising: it reaches
\* and finishes VALIDATING CONTAINER whatever the records contain.
C1_FullAuditNeverRaises == pc # "raised"

\* C2: validate_container returns MISSING when the record's type is unset (None
\* or empty), INVALID when it is set and names no schema of the registry, SUCCESS
\* otherwise, and leaves the pipeline state and the registry as they were.
C2_ValidateContainerContract ==
    [][ op' = "validate_container" =>
          /\ ret' = ( IF ~Has(arg'[1], "type") \/ arg'[1]["type"] = "" THEN Code("MISSING")
                      ELSE IF arg'[1]["type"] \notin DOMAIN registry THEN Code("INVALID")
                      ELSE Code("SUCCESS") )
          /\ UNCHANGED << all_devices, all_items, temp_set, todo, registry, items >> ]_vars

\* C2 witness: a record with an unregistered type was judged INVALID on an object
\* whose pipeline state is not empty.
C2_Witness ==
    /\ op = "validate_container"
    /\ ret = Code("INVALID")
    /\ Subject["type"] = "Ghost"
    /\ all_items # << >>

\* Every key the schema of a loaded record declares.
DeclaredKeys(item) ==
    { registry[item["type"]].entry_info[i].key : i \in 1..Len(registry[item["type"]].entry_info) }

\* C3: validate_extra_attributes returns EXTRAS exactly when the record's keys
\* minus all keys its schema declares minus {creation, last_edit, _id, type} is
\* not empty, and SUCCESS otherwise.
C3_ExtrasIffUndeclaredKeys ==
    op = "validate_extra_attributes" =>
        LET undeclared == ((DOMAIN Subject) \ DeclaredKeys(Subject))
                              \ {"creation", "last_edit", "_id", "type"}
        IN  ret = IF undeclared # {} THEN Code("EXTRAS") ELSE Code("SUCCESS")

\* C4: when module discovery has run over the same database a second time, the
\* pipeline state equals the state after its first pass.
C4_DiscoveryIdempotent ==
    (pc = "pypi" /\ op = "get_device_class" /\ first_pass # << >>) =>
        /\ all_devices = first_pass[1].all_devices
        /\ all_items = first_pass[1].all_items

\* C5: whenever parse_database begins, the seen-module set and the item list
\* are empty.
C5_StateClearedAtRunStart ==
    pc = "validate" => (all_devices = {} /\ all_items = << >>)

\* C6 as claimed: the pipeline state is written by the module-discovery pass
\* alone; the oracle and the import pass leave the seen-module set and the item
\* list as they were.
C6_OnlyDiscoveryWritesState ==
    [][ pc # "discover" => UNCHANGED << all_devices, all_items >> ]_vars

\* C6: the item list is written by the module-discovery pass alone; the import
\* pass leaves the seen-module set and the item list as they were; the oracle
\* leaves the item list as it was and replaces the seen-module set by a subset
\* of it.
C6_OracleOnlyNarrowsModules ==
    [][ /\ pc # "discover" => all_items' = all_items
        /\ pc \notin {"discover", "pypi"} => all_devices' = all_devices
        /\ pc = "pypi" => all_devices' \subseteq all_devices ]_vars

\* C6 witness: the oracle has dropped every module while the item list still
\* holds the two records that named them, and the import pass has judged one.
C6_Witness ==
    /\ op = "validate_import_class"
    /\ all_devices = {}
    /\ Len(all_items) = 2
    /\ first_pass[1].all_devices # {}

\* The stages of a full run, in the order claimed.
StageOrder == << "validate", "args", "enforce", "discover", "pypi", "import", "container" >>

\* A stage has processed every record it is to process.
StageDone(s) ==
    CASE s = "validate" -> count[s] = 1
      [] s \in {"args", "enforce", "discover", "container"} -> count[s] = Len(items)
      [] s = "pypi" -> todo = {} /\ pc \in {"import", "container", "done"}
      [] s = "import" -> count[s] = Len(all_items)

\* C7 as claimed: the stages run in the fixed order, and a stage processes a
\* record only after the stage before it has processed every record.
C7_StagesNeverInterleave ==
    \A i \in 1..(Len(StageOrder) - 1) :
        count[StageOrder[i + 1]] > 0 => StageDone(StageOrder[i])

\* C7: the stages run in the fixed order and each is complete before the next
\* processes a record, except that the Enforce Validator and module discovery
\* share one loop: each record is enforced and then discovered before the next
\* record is enforced.
C7_StagesInOrder ==
    /\ count["args"] > 0 => StageDone("validate")
    /\ count["enforce"] > 0 => StageDone("args")
    /\ count["discover"] <= count["enforce"]
    /\ count["enforce"] <= count["discover"] + 1
    /\ (pc = "pypi" \/ count["pypi"] > 0) => (StageDone("enforce") /\ StageDone("discover"))
    /\ count["import"] > 0 => StageDone("pypi")
    /\ count["container"] > 0 => (StageDone("import") /\ pc \in {"container", "done"})

\* C7 witness: a full run over two records has finished every stage.
C7_Witness ==
    /\ pc = "done"
    /\ count["enforce"] = 2
    /\ count["discover"] = 2
    /\ count["pypi"] = 2
    /\ count["import"] = 2
    /\ count["container"] = 2

\* The schema of the last call's record cannot be resolved.
Unresolvable(item) == ~Has(item, "type") \/ item["type"] \notin DOMAIN registry

\* C8: for a record whose schema cannot be resolved (type absent or not in the
\* registry) validate_enforce returns MISSING and does not raise.
C8_EnforceMissingWithoutSchema ==
    (op = "validate_enforce" /\ Unresolvable(Subject)) => ret = Code("MISSING")

\* C9: for a record with a resolvable schema validate_enforce returns INVALID
\* if some descriptor of the schema rejects the record's value for its key, and
\* SUCCESS only if every descriptor accepts its value.
C9_EnforceChecksEveryDescriptor ==
    (op = "validate_enforce" /\ ~Unresolvable(Subject)) =>
        LET entry_info == registry[Subject["type"]].entry_info
            rejected == { i \in 1..Len(entry_info) :
                            ~enforce_value(entry_info[i], get_value(entry_info[i], Subject)) }
        IN  /\ rejected # {} => ret = Code("INVALID")
            /\ ret = Code("SUCCESS") => rejected = {}

\* The first dotted component of a class path that has a '.'.
TopModule(s) == SubSeq(s, 1, FirstDot(s) - 1)

\* C10: in the import pass import_class is called only for a record whose
\* top-level module is in the confirmed set; for any other record
\* validate_import_class returns INVALID without calling it; for a confirmed
\* module it returns SUCCESS exactly when the import resolves.
C10_ImportOnlyConfirmedModules ==
    (op = "validate_import_class" /\ pc \in {"import", "container"}) =>
        LET mod == TopModule(Subject["device_class"])
        IN  /\ imported # "no" => mod \in all_devices
            /\ mod \notin all_devices => (ret = Code("INVALID") /\ imported = "no")
            /\ mod \in all_devices => (ret = Code("SUCCESS") <=> imported = "resolved")

Validators == {"validate_container", "validate_enforce", "get_device_class",
               "validate_import_class", "validate_extra_attributes"}

\* C11: what a validation stage returns for a record is exactly one ReportCode
\* value, never a collection of modules, a pair of codes, or no value: so for
\* validate_container, validate_enforce (a schema without descriptors included),
\* get_device_class, validate_import_class (an empty module part included) and
\* validate_extra_attributes.
C11_ValidatorsReturnOneReportCode ==
    (op \in Validators /\ ret.kind # "raise") =>
        (ret.kind = "code" /\ ret.val[1] \in ReportCode)

\* The command has ended.
Ended == pc \in {"done", "exit", "raised"}

\* C12: the command ends with exit code 1 exactly when no database path could
\* be resolved (no --file and either no configuration file or a configuration
\* without a default path entry) or the path is not a regular file; in every
\* other case it ends with exit code 0, whatever the audit found.
C12_ExitOneIffNoDatabase ==
    Ended => /\ exit_code \in {"0", "1"}
             /\ exit_code = "1" <=> db_path \in {"notfound", "nopath", "nofile"}

\* C13: in the Argument Builder stage a template substitution or type coercion
\* that fails on an argument of one record does not stop the stage: the failure
\* is logged and the stage goes on to the next record, or to the next stage
\* after the last record.
C13_FillFailureDoesNotStopStage ==
    (op = "validate_args" /\ ret.kind = "raise") =>
        (pc \in {"args", "enforce"} /\ exit_code = "none")

\* The oracle has been entered in the running command.
OracleEntered == pc = "pypi" \/ count["pypi"] > 0

\* C14 without its last part: one lookup is made for each discovered module, a
\* lookup that raises is caught and leaves its module unconfirmed, and the
\* command goes on with the remaining lookups and does not end by raising.
LookupsBestEffort ==
    /\ pc = "pypi" => count["pypi"] + Cardinality(todo) = Cardinality(all_devices)
    /\ (op = "search_pip_package" /\ ret = [kind |-> "bool", val |-> << "None" >>]) =>
          (pc = "pypi" /\ arg[1] \notin temp_set)
    /\ OracleEntered => pc # "raised"

\* C14: the oracle is best-effort per module: one lookup for each discovered
\* module; a lookup that raises is caught, leaves that module unconfirmed and
\* does not prevent the remaining lookups; every record whose class path names
\* an unconfirmed module then gets INVALID from the import pass, and the run
\* completes.
C14_OracleBestEffort ==
    /\ LookupsBestEffort
    /\ (op = "validate_import_class" /\ pc \in {"import", "container"}
          /\ TopModule(Subject["device_class"]) \notin all_devices) =>
          ret = Code("INVALID")

\* The record with one more key, when it does not have it yet.
WithKey(item, k) == IF k \in DOMAIN item THEN item ELSE item @@ (k :> "now")

\* C15: the reserved keys creation, last_edit, _id and type are never counted
\* as extras: adding any of them to a record does not change what
\* validate_extra_attributes returns for it.
C15_ReservedKeysNeverChangeResult ==
    op = "validate_extra_attributes" =>
        \A k \in extr_list :
            validate_extra_attributes(WithKey(Subject, k), EntryInfoOf(Subject, registry)) = ret

\* C16: the oracle confirms a module when a local import probe of it succeeds,
\* and asks the package index only when the probe fails: a module the running
\* interpreter can import stays in the confirmed set whatever the index answers.
C16_ImportableModuleIsConfirmed ==
    (op = "search_pip_package" /\ arg[2] = "importable") => arg[1] \in temp_set

\* C19 (termination): a package-index lookup that never answers does not stall
\* the audit: every lookup is bounded and falls back to "not confirmed", so the
\* command is never left waiting in a lookup that cannot return, and goes on to
\* the remaining lookups and the later stages.
C19_NoLookupBlocksTheAudit ==
    /\ pc # "blocked"
    /\ op = "search_pip_package" => ret.kind = "bool"

FullStages == Stages \ {"extras"}

\* What C17 says of one state: which stages the running command has called.
OneModePerCommand ==
    /\ db_path # "regular" => count = NoCalls
    /\ (db_path = "regular" /\ extras) =>
          /\ pc \in {"extras", "done"}
          /\ \A s \in FullStages : count[s] = 0
          /\ pc = "done" => count["extras"] = Len(items)
    /\ (db_path = "regular" /\ ~extras) =>
          /\ pc # "extras"
          /\ count["extras"] = 0

\* C17: the two modes are exclusive. A command with --extras runs only the
\* Extra-Attribute Detector, over every record, runs none of the stages of the
\* full audit and leaves the Pipeline State as it was; a command without
\* --extras never runs the detector.
C17_ModesAreExclusive ==
    [][ /\ OneModePerCommand'
        /\ (pc = "extras" \/ pc' = "extras") => UNCHANGED << all_devices, all_items >> ]_vars

\* C17 witness: after a full audit that left modules and records in the
\* Pipeline State, an --extras command on the same object has run the detector
\* on both records and ended.
C17_Witness ==
    /\ runs = 2
    /\ db_path = "regular"
    /\ extras
    /\ pc = "done"
    /\ count["extras"] = 2
    /\ all_devices # {}
    /\ all_items # << >>

\* C18: in the Argument Builder stage an exception raised while importing the
\* record's class or constructing it is caught and logged: the command does not
\* end, and the stage goes on with the next record, or to the next stage after
\* the last record.
C18_ConstructionFailureIsNotFatal ==
    (op = "validate_args" /\ imported \in {"ImportError", "Exception"}) =>
        /\ ret = NoneValue
        /\ exit_code = "none"
        /\ pc \in {"args", "enforce"}
        /\ pc = "args" => idx = count["args"] + 1
        /\ pc = "enforce" => count["args"] = Len(items)

\* C18 witness: the constructor of the first of two records raised, and the
\* stage is about to build the arguments of the second.
C18_Witness ==
    /\ op = "validate_args"
    /\ imported = "Exception"
    /\ Len(items) = 2
    /\ Subject = items[1]
    /\ pc = "args"
    /\ idx = 2

\* The record's device_class is set and contains a '.'.
Dotted(item) == Truthy(item, "device_class") /\ HasDot(item["device_class"])

\* C20: the import pass never attempts a dynamic import for a record whose
\* device_class is absent or has no '.': discovery gives such a record MISSING
\* or INVALID and does not add it to the item list, and validate_import_class
\* returns before import_class for it.
C20_NoImportWithoutDottedClass ==
    /\ \A i \in 1..Len(all_items) : Dotted(all_items[i])
    /\ (op = "get_device_class" /\ ~Dotted(Subject)) =>
          ret = (IF Truthy(Subject, "device_class") THEN Code("INVALID") ELSE Code("MISSING"))
    /\ (op = "validate_import_class" /\ ~Dotted(Subject)) =>
          (imported = "no" /\ ret \in {Code("MISSING"), Code("INVALID")})
    /\ (op = "validate_import_class" /\ imported # "no") => Dotted(Subject)

\* C20 witness: a full audit of two records, one of them without a '.' in its
\* device_class, has finished the import pass, which was run on the other only.
C20_Witness ==
    /\ pc = "container"
    /\ op = "validate_import_class"
    /\ Len(items) = 2
    /\ \E i \in 1..2 : Truthy(items[i], "device_class") /\ ~HasDot(items[i]["device_class"])
    /\ Len(all_items) = 1
    /\ count["import"] = 1

\* The positions of the database whose record has a dotted device_class.
DottedPositions == { i \in 1..Len(items) : Dotted(items[i]) }

\* C21: after one module-discovery pass over a database, started from an empty
\* Pipeline State, the seen-module set is exactly the set of the first dotted
\* components of the device_class of the records whose device_class is present
\* and has a '.', and the item list holds exactly those records, each once and
\* in their order; a record with an absent device_class is given MISSING, one
\* without a '.' INVALID, and neither adds anything to the state.
C21_DiscoveryCollectsDottedRecords ==
    /\ first_pass # << >> =>
          /\ first_pass[1].all_devices =
                { TopModule(items[i]["device_class"]) : i \in DottedPositions }
          /\ first_pass[1].all_items = SelectSeq(items, Dotted)
    /\ (op = "get_device_class" /\ ~Truthy(Subject, "device_class")) => ret = Code("MISSING")
    /\ (op = "get_device_class" /\ Truthy(Subject, "device_class")
          /\ ~HasDot(Subject["device_class"])) => ret = Code("INVALID")

\* C21 witness: the first discovery pass has finished a database of two records,
\* one with a class path of three components and one without a device_class,
\* and kept the first only.
C21_Witness ==
    /\ first_pass # << >>
    /\ Len(items) = 2
    /\ \E i \in 1..2 : ~Truthy(items[i], "device_class")
    /\ \E i \in 1..2 : Dotted(items[i]) /\ items[i]["device_class"] = ClassABC
    /\ Len(first_pass[1].all_items) = 1
    /\ first_pass[1].all_devices = { TopModule(ClassABC) }

\* The oracle / the import pass of the running command has started.
OracleStarted == pc \in {"pypi", "blocked"} \/ count["pypi"] > 0
ImportStarted == pc = "import" \/ count["import"] > 0

\* C22: in a full run the oracle starts only after module discovery has
\* processed every record of the database, and the import pass starts only
\* after the oracle has made all its lookups; so every verdict of the import
\* pass is computed against the final confirmed set, and no record is judged
\* against a module set that is still being built.
C22_OracleAndImportWaitForTheirInput ==
    /\ OracleStarted => count["discover"] = Len(items)
    /\ ImportStarted =>
          /\ pc \notin {"pypi", "blocked"}
          /\ todo = {}
          /\ all_devices = temp_set
    /\ (op = "validate_import_class" /\ count["import"] > 0) =>
          \E imp \in ImportOutcomes :
              ret = validate_import_class(Subject, temp_set, imp).ret

\* C22 witness: in the first run, discovery has seen both records, the oracle
\* has looked up both modules and kept one, and the import pass has judged both
\* records against that set.
C22_Witness ==
    /\ runs = 1
    /\ pc = "container"
    /\ op = "validate_import_class"
    /\ count["discover"] = 2
    /\ count["pypi"] = 2
    /\ count["import"] = 2
    /\ Cardinality(all_devices) = 1

\* One step of the oracle as C23 describes it: it starts from a copy of the
\* discovered set and makes no lookup when that set is empty; a lookup is made
\* on a discovered module and keeps it exactly when it returned True; the set
\* the import pass reads is what the lookups kept; the item list is not touched.
OracleNarrowsStep ==
    /\ (pc # "pypi" /\ pc' = "pypi") => (temp_set' = all_devices' /\ todo' = all_devices')
    /\ (pc = "pypi" /\ all_devices = {}) => op' # "search_pip_package"
    /\ (pc = "pypi" /\ op' = "search_pip_package") =>
          /\ arg'[1] \in all_devices
          /\ temp_set' \subseteq temp_set
          /\ pc' = "pypi" =>
                (arg'[1] \in temp_set' <=>
                    (arg'[1] \in temp_set /\ ret' = [kind |-> "bool", val |-> << "True" >>]))
    /\ (pc = "pypi" /\ op' = "check_device_in_pypi") =>
          /\ todo = {}
          /\ all_devices' = temp_set
          /\ all_devices' \subseteq all_devices
    /\ pc = "pypi" => all_items' = all_items

\* C23: the oracle only narrows the module set: after check_device_in_pypi the
\* set the import pass consults is a subset of the set discovered before it, a
\* module is kept only if its lookup returned found, the item list is left as
\* it was, and no lookup is made on an empty discovered set; the records of the
\* dropped modules stay in the item list and are then reported INVALID by the
\* import pass.
C23_OracleNarrowsAndDroppedAreInvalid ==
    [][ /\ OracleNarrowsStep
        /\ (pc = "import" /\ op' = "validate_import_class"
              /\ TopModule(arg'[1]["device_class"]) \notin all_devices) =>
              ret' = Code("INVALID") ]_vars

\* C23 without its last part.
OracleNarrows == [][OracleNarrowsStep]_vars

====
